---- MODULE Spec2Model ----
(***************************************************************************)
(* Model of the wara9a collection / generation pipeline:                   *)
(*   Project.collect_data, Project.generate_documents,                     *)
(*   Project._prepare_template_context   (wara9a/core/project.py)          *)
(*   ConnectorRegistry                   (wara9a/core/connector_registry.py)*)
(*   DocumentGenerator.generate_all      (wara9a/core/generator.py)        *)
(*   ProjectData.get_latest_release      (wara9a/core/models.py)           *)
(*   GeneratorBase.prepare_output_path   (wara9a/generators/base.py)       *)
(*                                                                         *)
(* Python's Optional values are modelled as sequences of length 0 or 1     *)
(* (None == <<>>, a value x == <<x>>); exceptions are modelled by the name *)
(* of the exception class, "None" when nothing was raised.                 *)
(***************************************************************************)
EXTENDS Integers, Sequences, FiniteSets, TLC

VARIABLES
    config,              \* Project.config (Wara9aConfig): project, sources, templates, output
    connector_behaviour, \* what connector.collect does for each declared source: "ok" | "raise" | "invalid" ...
    registry,            \* Project.connector_registry: _connectors, _instances, _loaded_plugins
    project_data,        \* Project._project_data (Optional[ProjectData])
    clock,               \* datetime.now(), advanced by every call that builds objects
    collect_calls,       \* history: one record per finished call of collect_data
    gen_calls,           \* history: one record per finished call of generate_documents
    enum_format,         \* what f"{format_name}" yields for a str-mixin Enum in the running
                         \* Python: "value" (html) or "member" (OutputFormat.HTML)
    template_engine,     \* the template names that TemplateEngine.render renders without error
    generator_fails,     \* the formats whose generator raises while writing the file
    latest_release,      \* history: results of get_latest_release (Optional record per call)
    reg_ops,             \* history: one record per finished operation on the registry
    all_calls,           \* history: one record per finished call of generate_all
    generation_stats,    \* DocumentGenerator._generation_stats (None: the empty dict)
    preview_calls,       \* history: one record per call of preview_generation
    test_calls,          \* history: one record per call of ConnectorBase.test_connection
    context_calls,       \* history: one record per direct call of _prepare_template_context
    dep_calls,           \* history: one record per call of auto_install_dependencies
    importable           \* the modules that importlib.util.find_spec finds in the environment

vars == <<config, connector_behaviour, registry, project_data, clock,
          collect_calls, gen_calls, enum_format, template_engine, generator_fails,
          latest_release, reg_ops, all_calls, generation_stats, preview_calls,
          test_calls, context_calls, dep_calls, importable>>

\* the variables of the auxiliary operations (preview, connection test,
\* direct context building, dependency management)
aux_vars == <<preview_calls, test_calls, context_calls, dep_calls, importable>>

----------------------------------------------------------------------------
(* Bounds of the model *)

MaxSources == 3
MaxCalls == 2
MaxReleases == 3
MaxTime == 2
MaxTemplates == 2
MaxGenCalls == 2
MaxRelCalls == 1
MaxRegOps == 4
MaxAllCalls == 2
MaxPreviewCalls == 1
MaxTestCalls == 2
MaxDepCalls == 2
MaxCommits == 12
MaxContextCalls == 2

----------------------------------------------------------------------------
(* Python helpers *)

None == <<>>
Some(x) == <<x>>
IsNone(o) == o = <<>>

Range(s) == { s[k] : k \in DOMAIN s }

RECURSIVE SeqsUpTo(_, _)
SeqsUpTo(S, n) ==
    IF n = 0 THEN { <<>> }
    ELSE LET shorter == SeqsUpTo(S, n - 1)
         IN  shorter \cup { Append(q, x) : q \in { r \in shorter : Len(r) = n - 1 }, x \in S }

\* the positions 1..Len(s) of a list, in order
Positions(s) == [k \in 1..Len(s) |-> k]

----------------------------------------------------------------------------
(* Configuration (wara9a/core/config.py) *)

SourceTypes == {"local_files", "github", "nosuch"}

\* SourceConfig: type, name, enabled
SourceConfigs == [type : SourceTypes, name : {"src"}, enabled : BOOLEAN]

\* variant of get_enabled_sources that forgets the `if source.enabled` filter
get_enabled_sources_unfiltered(cfg) == Positions(cfg.sources)

\* Wara9aConfig.get_enabled_sources, as the declared positions of the enabled sources
IsEnabled(s) == s.enabled
get_enabled_sources(cfg) == SelectSeq(Positions(cfg.sources), LAMBDA k : IsEnabled(cfg.sources[k]))

\* self.config.get("continue_on_error", True): Wara9aConfig declares no method
\* `get` (config.py:95-141) and pydantic's BaseModel provides none, so the
\* attribute lookup itself raises AttributeError, whatever the key and default.
config_get(cfg, key, default) == [raised |-> "AttributeError", value |-> default]

----------------------------------------------------------------------------
(* Data model (wara9a/core/models.py) *)

Repository(name, full_name, description) ==
    [name |-> name, full_name |-> full_name, description |-> description]

\* ProjectData(...) with the defaults of its Field declarations; `extras` tells
\* whether the extra attributes commits / issues / pull_requests were passed
\* (model_config extra="allow"), `inst` is the identity of the Python object.
ProjectData(functional_data, technical_data, repository, releases, now, source_type, source_config, extras, inst) ==
    [functional_data |-> functional_data, technical_data |-> technical_data,
     repository |-> repository, releases |-> releases, collected_at |-> now,
     source_type |-> source_type, source_config |-> source_config,
     extras |-> extras, inst |-> inst]

Release(tag, published_at, is_draft) ==
    [tag |-> tag, published_at |-> published_at, is_draft |-> is_draft]

\* max(published_releases, key=lambda r: r.published_at): the first maximal element
RECURSIVE py_max(_, _, _)
py_max(rs, k, best) ==
    IF k > Len(rs) THEN best
    ELSE IF rs[k].published_at[1] > best.published_at[1]
         THEN py_max(rs, k + 1, rs[k])
         ELSE py_max(rs, k + 1, best)

\* variant of Published that forgets `not r.is_draft`
Published_with_drafts(r) == ~IsNone(r.published_at)

\* `if r.published_at and not r.is_draft` (models.py:486)
Published(r) == ~IsNone(r.published_at) /\ ~r.is_draft

\* ProjectData.get_latest_release
get_latest_release(data) ==
    LET idx == SelectSeq(Positions(data.releases), LAMBDA k : Published(data.releases[k]))
        published_releases == [k \in 1..Len(idx) |-> data.releases[idx[k]]]
    IN  IF published_releases = <<>> THEN None
        ELSE Some(py_max(published_releases, 2, published_releases[1]))

----------------------------------------------------------------------------
(* Connectors (wara9a/connectors) and their registry *)

BuiltinModules == {"github", "jira", "local_files"}

\* what a successful connector.collect(source_config) returns for the source
\* declared at position i: GitHubConnector builds a ProjectData with technical
\* data and no extra attributes, LocalFilesConnector one with the extra
\* attributes commits / issues / pull_requests.
connector_collect(i, s, now) ==
    ProjectData(None,
                IF s.type = "github" THEN Some("technical" \o ToString(i)) ELSE None,
                Repository("repo" \o ToString(i), "org/repo" \o ToString(i), None),
                << Release("v" \o ToString(i), Some(i), FALSE) >>,
                now, s.type, Some(i), s.type # "github",
                [call |-> now, source |-> i])

\* The extra attributes that the connectors pass to ProjectData.
\* LocalFilesConnector passes the commits of `git log --max-count=50` (newest
\* first), no issue and no pull request; JiraConnector passes the issues of
\* the project, no commit and no pull request. The repository of the source
\* declared first has MaxCommits commits, that of the second three, any
\* other none; a Jira project has two issues.
GitLog(i) ==
    [k \in 1..(IF i = 1 THEN MaxCommits ELSE IF i = 2 THEN 3 ELSE 0) |->
        [sha |-> k, repository |-> i]]

commits(data) ==
    IF data.source_type = "local_files" THEN GitLog(data.inst.source) ELSE <<>>

issues(data) ==
    IF data.source_type = "jira"
    THEN << [key |-> 1, project |-> data.inst.source], [key |-> 2, project |-> data.inst.source] >>
    ELSE <<>>

pull_requests(data) == <<>>

\* The connector classes: the three of wara9a/connectors, the two abstract
\* categories of connector_base.py that their modules import, two classes A
\* and B that a host registers for one type, and a class that is no connector
ConnectorClasses ==
    {"GitHubConnector", "JiraConnector", "LocalFilesConnector", "GitConnector",
     "TicketingConnector", "A", "B", "NotAConnector"}

\* issubclass(connector_class, ConnectorBase)
IsConnectorBaseSubclass(c) == c # "NotAConnector"

\* a class that still has abstract members: calling it raises TypeError
IsAbstract(c) == c \in {"GitConnector", "TicketingConnector"}

\* the connector_type property of an instance of the class
class_connector_type(c) ==
    CASE c = "GitHubConnector" -> "github"
      [] c = "JiraConnector" -> "jira"
      [] c = "LocalFilesConnector" -> "local_files"
      [] OTHER -> "custom"

\* the connector classes that dir(module) yields for wara9a.connectors.<name>,
\* in the (sorted) order of dir
module_connectors(name) ==
    CASE name = "github" -> <<"GitConnector", "GitHubConnector">>
      [] name = "jira" -> <<"JiraConnector", "TicketingConnector">>
      [] name = "local_files" -> <<"LocalFilesConnector">>
      [] OTHER -> <<>>

\* dict.pop(key, None) / dict[key] = value on a dict held as a function
dict_pop(d, key) == [k \in DOMAIN d \ {key} |-> d[k]]
dict_set(d, key, value) == (key :> value) @@ d

\* variant of register_connector that leaves the cached instance in place
register_connector_keeping_instance(reg, c) ==
    IF ~IsConnectorBaseSubclass(c) THEN [reg |-> reg, raised |-> "ValueError"]
    ELSE IF IsAbstract(c) THEN [reg |-> reg, raised |-> "TypeError"]
    ELSE [reg |-> [reg EXCEPT !.connectors = dict_set(@, class_connector_type(c), c)],
          raised |-> "None"]

\* ConnectorRegistry.register_connector: the registry afterwards and the
\* exception raised
register_connector(reg, c) ==
    IF ~IsConnectorBaseSubclass(c) THEN [reg |-> reg, raised |-> "ValueError"]
    ELSE IF IsAbstract(c) THEN [reg |-> reg, raised |-> "TypeError"]
    ELSE [reg |-> [reg EXCEPT !.connectors = dict_set(@, class_connector_type(c), c),
                              !.instances = dict_pop(@, class_connector_type(c))],
          raised |-> "None"]

\* ConnectorRegistry._register_connectors_from_module: every connector class
\* of the module is registered, an exception of register_connector is logged
RECURSIVE register_connectors_from_module(_, _, _)
register_connectors_from_module(reg, classes, k) ==
    IF k > Len(classes) THEN reg
    ELSE register_connectors_from_module(register_connector(reg, classes[k]).reg,
                                         classes, k + 1)

\* ConnectorRegistry._load_builtin_connectors: the modules of wara9a.connectors
RECURSIVE load_builtin_connectors(_, _, _)
load_builtin_connectors(reg, modules, k) ==
    IF k > Len(modules) THEN reg
    ELSE load_builtin_connectors(
             register_connectors_from_module(reg, module_connectors(modules[k]), 1),
             modules, k + 1)

\* ConnectorRegistry.__init__: three empty collections, then the built-in
\* connectors; `created` counts the connector instances that get_connector
\* has constructed and cached, it numbers them (object identity)
NewRegistry ==
    load_builtin_connectors([connectors |-> [t \in {} |-> ""],
                             instances |-> [t \in {} |-> ""],
                             loaded_plugins |-> {}, created |-> 0],
                            <<"github", "jira", "local_files">>, 1)

\* variant of try_load_connector that does not remember the attempt
try_load_connector_forgetful(reg, t) ==
    IF t \in reg.loaded_plugins THEN [reg |-> reg, imported |-> <<>>]
    ELSE [reg |-> IF t \in BuiltinModules
                  THEN register_connectors_from_module(reg, module_connectors(t), 1)
                  ELSE reg,
          imported |-> <<t>>]

\* ConnectorRegistry._try_load_connector: one import attempt per type; the
\* result names the modules whose import was attempted
try_load_connector(reg, t) ==
    IF t \in reg.loaded_plugins THEN [reg |-> reg, imported |-> <<>>]
    ELSE [reg |-> IF t \in BuiltinModules
                  THEN register_connectors_from_module(
                           [reg EXCEPT !.loaded_plugins = @ \cup {t}],
                           module_connectors(t), 1)
                  ELSE [reg EXCEPT !.loaded_plugins = @ \cup {t}],
          imported |-> <<t>>]

\* variant of get_connector that answers an unknown type with None instead of
\* raising
get_connector_returning_none(reg, t) ==
    LET after_load(l) ==
          IF t \notin DOMAIN l.reg.connectors
          THEN [reg |-> l.reg, raised |-> "None", instance |-> None,
                imported |-> l.imported]
          ELSE IF t \notin DOMAIN l.reg.instances
          THEN [reg |-> [l.reg EXCEPT
                           !.instances = dict_set(@, t, [class |-> l.reg.connectors[t],
                                                         id |-> l.reg.created + 1]),
                           !.created = @ + 1],
                raised |-> "None",
                instance |-> Some([class |-> l.reg.connectors[t],
                                   id |-> l.reg.created + 1]),
                imported |-> l.imported]
          ELSE [reg |-> l.reg, raised |-> "None", instance |-> Some(l.reg.instances[t]),
                imported |-> l.imported]
    IN  after_load(IF t \notin DOMAIN reg.connectors THEN try_load_connector(reg, t)
                   ELSE [reg |-> reg, imported |-> <<>>])

\* ConnectorRegistry.get_connector: the registry afterwards, the exception
\* raised, the instance returned and the imports attempted
get_connector(reg, t) ==
    LET after_load(l) ==
          IF t \notin DOMAIN l.reg.connectors
          THEN [reg |-> l.reg, raised |-> "ValueError", instance |-> None,
                imported |-> l.imported]
          ELSE IF t \notin DOMAIN l.reg.instances
          THEN [reg |-> [l.reg EXCEPT
                           !.instances = dict_set(@, t, [class |-> l.reg.connectors[t],
                                                         id |-> l.reg.created + 1]),
                           !.created = @ + 1],
                raised |-> "None",
                instance |-> Some([class |-> l.reg.connectors[t],
                                   id |-> l.reg.created + 1]),
                imported |-> l.imported]
          ELSE [reg |-> l.reg, raised |-> "None", instance |-> Some(l.reg.instances[t]),
                imported |-> l.imported]
    IN  after_load(IF t \notin DOMAIN reg.connectors THEN try_load_connector(reg, t)
                   ELSE [reg |-> reg, imported |-> <<>>])

\* ConnectorRegistry.has_connector: the registry afterwards, the answer and
\* the imports attempted
has_connector(reg, t) ==
    IF t \in DOMAIN reg.connectors THEN [reg |-> reg, found |-> TRUE, imported |-> <<>>]
    ELSE LET after_load(l) ==
               [reg |-> l.reg, found |-> t \in DOMAIN l.reg.connectors,
                imported |-> l.imported]
         IN  after_load(try_load_connector(reg, t))

\* variant of registry_clear that keeps the cached instances
registry_clear_keeping_instances(reg) ==
    [reg EXCEPT !.connectors = [t \in {} |-> ""], !.loaded_plugins = {}]

\* ConnectorRegistry.clear
registry_clear(reg) ==
    [reg EXCEPT !.connectors = [t \in {} |-> ""], !.instances = [t \in {} |-> ""],
                !.loaded_plugins = {}]

----------------------------------------------------------------------------
(* Project.collect_data (wara9a/core/project.py:120-179) *)

\* the `except Exception as e:` clause of the collection loop (project.py:155-158):
\* log the error, then evaluate `not self.config.get("continue_on_error", True)`;
\* the result names the exception that leaves the handler ("None": the loop goes on)
collect_handler(cfg, exc) ==
    LET g == config_get(cfg, "continue_on_error", TRUE)
    IN  IF g.raised # "None" THEN g.raised
        ELSE IF ~g.value THEN exc
        ELSE "None"

\* connector.collect raises ConnectorError when the collection fails ("raise")
\* and when its own call of self.validate_config returns errors ("invalid":
\* github.py:116-118, local_files.py:91-93, jira.py:103-105); the orchestrator
\* itself never calls validate_config
connector_raises(beh_i) == beh_i \in {"raise", "invalid"}

\* variant of try_body that appends to all_data only after the counts were logged
try_body_append_after_log(acc, i, s, beh_i, now) ==
    LET gc   == get_connector(acc.reg, s.type)
        a1   == [acc EXCEPT !.reg = gc.reg]
        a2   == [a1 EXCEPT !.collected = Append(@, i)]
        data == connector_collect(i, s, now)
        a3   == [a2 EXCEPT !.all_data = Append(@, data)]
    IN  IF gc.raised # "None" THEN [exc |-> gc.raised, acc |-> a1]
        ELSE IF connector_raises(beh_i) THEN [exc |-> "ConnectorError", acc |-> a2]
        ELSE IF ~data.extras THEN [exc |-> "AttributeError", acc |-> a2]
        ELSE [exc |-> "None", acc |-> a3]

\* the try block for one source (project.py:143-153): resolve the connector,
\* collect, append to all_data, log the counts; the result is the exception
\* raised inside the block ("None" if it ran to its end) and the state it leaves
try_body(acc, i, s, beh_i, now) ==
    LET gc   == get_connector(acc.reg, s.type)
        a1   == [acc EXCEPT !.reg = gc.reg]
        a2   == [a1 EXCEPT !.collected = Append(@, i)]
        data == connector_collect(i, s, now)
        a3   == [a2 EXCEPT !.all_data = Append(@, data)]
    IN  IF gc.raised # "None" THEN [exc |-> gc.raised, acc |-> a1]
        ELSE IF connector_raises(beh_i) THEN [exc |-> "ConnectorError", acc |-> a2]
        \* len(source_data.commits): ProjectData declares no such field
        ELSE IF ~data.extras THEN [exc |-> "AttributeError", acc |-> a3]
        ELSE [exc |-> "None", acc |-> a3]

\* the body of `for source_config in self.config.get_enabled_sources():` from
\* the k-th enabled source on; acc carries the registry, the local list
\* all_data and what the run did so far (sources attempted, connectors whose
\* collect was invoked, logger.error entries, the exception that ended it)
RECURSIVE collect_loop(_, _, _, _, _, _)
collect_loop(cfg, beh, es, k, now, acc) ==
    IF k > Len(es) THEN acc
    ELSE
      LET i == es[k]
          \* what follows the try block, t being its outcome
          after_try(t) ==
            IF t.exc = "None" THEN collect_loop(cfg, beh, es, k + 1, now, t.acc)
            ELSE LET logged == [t.acc EXCEPT
                                  !.errors = Append(@, [source |-> i, error |-> t.exc])]
                     out    == collect_handler(cfg, t.exc)
                 IN  IF out = "None" THEN collect_loop(cfg, beh, es, k + 1, now, logged)
                     ELSE [logged EXCEPT !.raised = out]
      IN  after_try(try_body([acc EXCEPT !.attempted = Append(@, i)],
                             i, cfg.sources[i], beh[i], now))

\* the data created when nothing was collected (project.py:166-177)
empty_project_data(cfg, now) ==
    ProjectData(None, None,
                Repository(cfg.project.name, cfg.project.name, cfg.project.description),
                <<>>, now, "local_files", None, FALSE,
                [call |-> now, source |-> 0])

\* variant of merge_all_data that adopts collected data only while nothing is held
merge_all_data_only_first_time(all_data, held, cfg, now) ==
    IF all_data # <<>> /\ IsNone(held) THEN all_data[1] ELSE empty_project_data(cfg, now)

\* "Merge all data" (project.py:160-177): the value assigned to
\* self._project_data (held before the assignment); the first collected data is the base
merge_all_data(all_data, held, cfg, now) ==
    IF all_data # <<>> THEN all_data[1] ELSE empty_project_data(cfg, now)

\* variant of use_cached_data that ignores force_refresh
use_cached_data_ignoring_force(force_refresh, held) == ~IsNone(held)

\* `if not force_refresh and self._project_data:` (project.py:133)
use_cached_data(force_refresh, held) == ~force_refresh /\ ~IsNone(held)

\* variant of collect_data that returns the merged data without keeping it
\* in self._project_data
collect_data_not_stored(cfg, beh, reg, held, force_refresh, now) ==
    IF use_cached_data(force_refresh, held)
    THEN [reg |-> reg, project_data |-> held,
          call |-> [force_refresh |-> force_refresh, cached |-> TRUE, raised |-> "None",
                    value |-> held, held_before |-> held, attempted |-> <<>>,
                    collected |-> <<>>, all_data |-> <<>>, errors |-> <<>>]]
    ELSE
      LET \* what follows the loop, run being its outcome
          after_loop(run) ==
            LET new == Some(merge_all_data(run.all_data, held, cfg, now))
            IN  [reg |-> run.reg,
                 project_data |-> held,
                 call |-> [force_refresh |-> force_refresh, cached |-> FALSE,
                           raised |-> run.raised,
                           value |-> IF run.raised = "None" THEN new ELSE None,
                           held_before |-> held, attempted |-> run.attempted,
                           collected |-> run.collected, all_data |-> run.all_data,
                           errors |-> run.errors]]
      IN  after_loop(collect_loop(cfg, beh, get_enabled_sources(cfg), 1, now,
                                  [reg |-> reg, all_data |-> <<>>, attempted |-> <<>>,
                                   collected |-> <<>>, errors |-> <<>>, raised |-> "None"]))

\* the whole call: the registry and _project_data afterwards, and the record
\* of what the call did and returned
collect_data(cfg, beh, reg, held, force_refresh, now) ==
    IF use_cached_data(force_refresh, held)
    THEN [reg |-> reg, project_data |-> held,
          call |-> [force_refresh |-> force_refresh, cached |-> TRUE, raised |-> "None",
                    value |-> held, held_before |-> held, attempted |-> <<>>,
                    collected |-> <<>>, all_data |-> <<>>, errors |-> <<>>]]
    ELSE
      LET \* what follows the loop, run being its outcome
          after_loop(run) ==
            LET new == Some(merge_all_data(run.all_data, held, cfg, now))
            IN  [reg |-> run.reg,
                 project_data |-> IF run.raised = "None" THEN new ELSE held,
                 call |-> [force_refresh |-> force_refresh, cached |-> FALSE,
                           raised |-> run.raised,
                           value |-> IF run.raised = "None" THEN new ELSE None,
                           held_before |-> held, attempted |-> run.attempted,
                           collected |-> run.collected, all_data |-> run.all_data,
                           errors |-> run.errors]]
      IN  after_loop(collect_loop(cfg, beh, get_enabled_sources(cfg), 1, now,
                                  [reg |-> reg, all_data |-> <<>>, attempted |-> <<>>,
                                   collected |-> <<>>, errors |-> <<>>, raised |-> "None"]))

CollectData ==
    /\ Len(collect_calls) < MaxCalls
    /\ \E force_refresh \in BOOLEAN :
         \E r \in { collect_data(config, connector_behaviour, registry, project_data,
                                 force_refresh, clock + 1) } :
             /\ registry' = r.reg
             /\ project_data' = r.project_data
             /\ collect_calls' = Append(collect_calls, r.call)
    /\ clock' = clock + 1
    /\ UNCHANGED <<config, connector_behaviour, gen_calls, enum_format, template_engine,
                   generator_fails, latest_release, reg_ops, all_calls,
                   generation_stats, aux_vars>>

----------------------------------------------------------------------------
(* Specification of collection: any configuration of at most MaxSources     *)
(* sources, any behaviour of their connectors, at most MaxCalls calls.      *)

ProjectConfigs == [name : {"proj"}, description : {None, Some("about proj")}]

\* the behaviour of a connector matters only for a source that is enabled and resolvable
SourceCases ==
    { c \in [cfg : SourceConfigs, collect : {"ok", "raise", "invalid"}] :
        /\ (c.cfg.enabled /\ c.cfg.type = "nosuch" => c.collect = "raise")
        /\ (~c.cfg.enabled => c.collect = "ok") }

NoOutput == [directory |-> "output", formats |-> <<>>, clean_before |-> FALSE]

\* the extra top-level key continue_on_error of the configuration file
\* (Wara9aConfig allows extra fields): absent, or false to abort on error
PolicyCases == {None, Some(FALSE)}

InitCollect ==
    /\ \E cases \in SeqsUpTo(SourceCases, MaxSources), p \in ProjectConfigs,
          policy \in PolicyCases :
         /\ config = [project |-> p,
                      sources |-> [k \in 1..Len(cases) |-> cases[k].cfg],
                      templates |-> <<>>, output |-> NoOutput,
                      continue_on_error |-> policy]
         /\ connector_behaviour = [k \in 1..Len(cases) |-> cases[k].collect]
    /\ registry = NewRegistry
    /\ project_data = None
    /\ clock = 0
    /\ collect_calls = <<>>
    /\ gen_calls = <<>>
    /\ enum_format = "value"
    /\ template_engine = {}
    /\ generator_fails = {}
    /\ latest_release = <<>>
    /\ reg_ops = <<>>
    /\ all_calls = <<>>
    /\ generation_stats = None
    /\ preview_calls = <<>>
    /\ test_calls = <<>>
    /\ context_calls = <<>>
    /\ dep_calls = <<>>
    /\ importable = {}

NextCollect == CollectData

SpecCollect == InitCollect /\ [][NextCollect]_vars

----------------------------------------------------------------------------
(* Output paths (pathlib) and generators (wara9a/generators) *)

\* A file name is the sequence of its dot-separated components
\* (README_generated.md == <<"README_generated", "md">>), a path a record
\* of a directory and a name.

\* PurePath.suffix: the last component when there are several
path_suffix(path) == IF Len(path.name) > 1 THEN Some(path.name[Len(path.name)]) ELSE None

\* PurePath.with_suffix(sfx), sfx given as its components
\* (".html" == <<"html">>, ".OutputFormat.HTML" == <<"OutputFormat", "HTML">>)
with_suffix(path, sfx) ==
    [path EXCEPT !.name = IF Len(@) > 1 THEN SubSeq(@, 1, Len(@) - 1) \o sfx ELSE @ \o sfx]

\* the member name of an OutputFormat value (config.py:16-20)
member_name(format_name) ==
    CASE format_name = "markdown" -> "MARKDOWN"
      [] format_name = "html" -> "HTML"
      [] format_name = "pdf" -> "PDF"

\* f".{format_name}" for an OutputFormat (a str-mixin Enum): the value up to
\* Python 3.10, "OutputFormat.<MEMBER>" from Python 3.11 on
format_suffix(format_name, fmt) ==
    IF fmt = "value" THEN <<format_name>> ELSE <<"OutputFormat", member_name(format_name)>>

\* Project.generators (project.py:61-64) and their file_extension properties
Generators == {"markdown", "html"}
file_extension(format_name) == IF format_name = "markdown" THEN "md" ELSE "html"

\* GeneratorBase.prepare_output_path
prepare_output_path(format_name, output_path) ==
    IF path_suffix(output_path) # Some(file_extension(format_name))
    THEN with_suffix(output_path, <<file_extension(format_name)>>)
    ELSE output_path

----------------------------------------------------------------------------
(* Project._prepare_template_context (project.py:262-285) *)

\* the methods that class ProjectData defines (models.py:465-489)
ProjectDataMethods ==
    {"has_functional_data", "has_technical_data", "get_documentation_types",
     "get_latest_release"}

\* the dict literal of project.py:264-275: the four builder keys, then
\* **template_config.variables, a later key replacing an earlier one
context_literal(tc) ==
    [k \in {"project", "data", "config", "template"} \cup DOMAIN tc.variables |->
        IF k \in DOMAIN tc.variables
        THEN [from |-> "variables", value |-> tc.variables[k]]
        ELSE [from |-> "builder", value |-> k]]

\* self._project_data.commits[:10] if self._project_data.commits else []
recent_commits(data) ==
    IF commits(data) = <<>> THEN <<>>
    ELSE SubSeq(commits(data), 1, IF Len(commits(data)) < 10 THEN Len(commits(data)) ELSE 10)

\* variant of prepare_template_context whose helpers consume the releases of
\* the data held
prepare_template_context_consuming_releases(cfg, held, tc) ==
    LET ctx == context_literal(tc)
    IN  IF IsNone(held) THEN [raised |-> "None", context |-> ctx, project_data |-> held]
        ELSE [raised |-> "AttributeError", context |-> ctx,
              project_data |-> Some([held[1] EXCEPT !.releases = <<>>])]

\* the whole method: the exception raised, the context built so far and
\* self._project_data afterwards (model_dump, get_latest_release and the
\* slice read the data and build new objects).
\* With data held, the helpers are evaluated in the order latest_release,
\* open_issues, recent_commits before context.update is called.
prepare_template_context(cfg, held, tc) ==
    LET ctx == context_literal(tc)
    IN  IF IsNone(held) THEN [raised |-> "None", context |-> ctx, project_data |-> held]
        ELSE IF "get_open_issues" \notin ProjectDataMethods
             THEN [raised |-> "AttributeError", context |-> ctx, project_data |-> held]
        ELSE IF ~held[1].extras \* self._project_data.commits
             THEN [raised |-> "AttributeError", context |-> ctx, project_data |-> held]
        ELSE [raised |-> "None",
              project_data |-> held,
              context |->
                [k \in DOMAIN ctx \cup {"latest_release", "open_issues", "recent_commits"} |->
                    IF k = "latest_release"
                    THEN [from |-> "builder", value |-> get_latest_release(held[1])]
                    ELSE IF k = "recent_commits"
                    THEN [from |-> "builder", value |-> recent_commits(held[1])]
                    ELSE IF k = "open_issues"
                    THEN [from |-> "builder", value |-> k]
                    ELSE ctx[k]]]

----------------------------------------------------------------------------
(* Project.generate_documents (project.py:181-260) *)

\* Wara9aConfig.get_enabled_templates, as the names of the enabled templates
IsEnabledTemplate(t) == t.enabled
get_enabled_templates(cfg) ==
    LET idx == SelectSeq(Positions(cfg.templates),
                         LAMBDA k : IsEnabledTemplate(cfg.templates[k]))
    IN  [k \in 1..Len(idx) |-> cfg.templates[idx[k]].name]

\* next((t for t in self.config.templates if t.name == template_name), None)
find_template(cfg, template_name) ==
    LET idx == SelectSeq([k \in 1..Len(cfg.templates) |-> k],
                         LAMBDA k : cfg.templates[k].name = template_name)
    IN  IF idx = <<>> THEN None ELSE Some(cfg.templates[idx[1]])

\* TemplateEngine.render(template_name, context, template_config): the engine
\* is an external collaborator; it renders the templates it knows and fails
\* on the others
render(engine, template_name) ==
    IF template_name \in engine
    THEN [raised |-> "None", content |-> "rendered " \o template_name]
    ELSE [raised |-> "TemplateNotFound", content |-> ""]

\* output_file for one format (project.py:240-244): output_dir /
\* template_config.output, its suffix replaced unless the format is markdown
output_file_of(tc, output_dir, format_name, fmt) ==
    IF format_name # "markdown"
    THEN with_suffix([dir |-> output_dir, name |-> tc.output], format_suffix(format_name, fmt))
    ELSE [dir |-> output_dir, name |-> tc.output]

\* `for format_name in self.config.output.formats:` (project.py:239-252) from
\* the k-th format on; acc carries generated_files, the files written and the
\* exception that ended the loop
RECURSIVE emit_formats(_, _, _, _, _, _, _)
emit_formats(cfg, tc, output_dir, fmt, failing, k, acc) ==
    IF k > Len(cfg.output.formats) THEN acc
    ELSE
      LET format_name == cfg.output.formats[k]
          final_path  == prepare_output_path(format_name,
                                             output_file_of(tc, output_dir, format_name, fmt))
      IN  IF format_name \notin Generators
          THEN emit_formats(cfg, tc, output_dir, fmt, failing, k + 1,
                            [acc EXCEPT !.no_generator = Append(@, format_name)])
          ELSE IF format_name \in failing
          THEN [acc EXCEPT !.raised = "OSError"]
          ELSE emit_formats(cfg, tc, output_dir, fmt, failing, k + 1,
                            [acc EXCEPT !.generated_files = Append(@, final_path),
                                        !.written = Append(@, final_path)])

\* the `except Exception as e:` clause of the template loop (project.py:254-257)
generate_handler(cfg, exc) ==
    LET g == config_get(cfg, "continue_on_error", TRUE)
    IN  IF g.raised # "None" THEN g.raised
        ELSE IF ~g.value THEN exc
        ELSE "None"

\* the try block for one template (project.py:229-252): build the context
\* from the data held (recorded in context_data), render once, emit every
\* format
generate_template_body(cfg, held, tc, output_dir, fmt, engine, failing, acc) ==
    LET after_context(pc, r) ==
          IF pc.raised # "None"
          THEN [acc EXCEPT !.context_data = Append(@, held), !.raised = pc.raised]
          ELSE IF r.raised # "None"
          THEN [acc EXCEPT !.context_data = Append(@, held),
                           !.contexts = Append(@, [template |-> tc.name,
                                                   context |-> pc.context]),
                           !.rendered = Append(@, tc.name),
                           !.raised = r.raised]
          ELSE emit_formats(cfg, tc, output_dir, fmt, failing, 1,
                            [acc EXCEPT !.context_data = Append(@, held),
                                        !.contexts = Append(@, [template |-> tc.name,
                                                                context |-> pc.context]),
                                        !.rendered = Append(@, tc.name)])
    IN  after_context(prepare_template_context(cfg, held, tc), render(engine, tc.name))

\* `for template_name in templates_to_use:` (project.py:214-257) from the k-th name on
RECURSIVE generate_loop(_, _, _, _, _, _, _, _, _)
generate_loop(cfg, held, names, output_dir, fmt, engine, failing, k, acc) ==
    IF k > Len(names) THEN acc
    ELSE
      LET \* what follows the try block, t being its outcome
          after_try(t) ==
            IF t.raised = "None"
            THEN generate_loop(cfg, held, names, output_dir, fmt, engine, failing, k + 1, t)
            ELSE LET logged == [t EXCEPT !.raised = "None",
                                         !.errors = Append(@, [template |-> names[k],
                                                               error |-> t.raised])]
                     out    == generate_handler(cfg, t.raised)
                 IN  IF out = "None"
                     THEN generate_loop(cfg, held, names, output_dir, fmt, engine,
                                        failing, k + 1, logged)
                     ELSE [logged EXCEPT !.raised = out]
          \* the iteration for the template config found (None: no such config)
          with_config(found) ==
            IF IsNone(found) \/ ~found[1].enabled
            THEN generate_loop(cfg, held, names, output_dir, fmt, engine, failing, k + 1,
                               [acc EXCEPT !.skipped = Append(@, names[k])])
            ELSE after_try(generate_template_body(cfg, held, found[1], output_dir, fmt,
                                                  engine, failing, acc))
      IN  with_config(find_template(cfg, names[k]))

\* the whole call: the collection it starts when no data is held, then the
\* template loop; `templates` is the Optional list passed by the caller
generate_documents(cfg, beh, reg, held, templates, fmt, engine, failing, now) ==
    LET names == IF IsNone(templates) \/ templates = Some(<<>>)
                 THEN get_enabled_templates(cfg)
                 ELSE templates[1]
        start == [generated_files |-> <<>>, written |-> <<>>, rendered |-> <<>>,
                  contexts |-> <<>>, context_data |-> <<>>, skipped |-> <<>>,
                  no_generator |-> <<>>,
                  errors |-> <<>>, raised |-> "None"]
        \* the result of the call, run being the outcome of the template loop
        result(col, run) ==
          [reg |-> col.reg, project_data |-> col.project_data,
           collect |-> IF IsNone(held) THEN Some(col.call) ELSE None,
           call |-> [templates |-> templates, names |-> names, raised |-> run.raised,
                     value |-> IF run.raised = "None" THEN Some(run.generated_files)
                               ELSE None,
                     generated_files |-> run.generated_files, written |-> run.written,
                     rendered |-> run.rendered, contexts |-> run.contexts,
                     context_data |-> run.context_data,
                     skipped |-> run.skipped, no_generator |-> run.no_generator,
                     errors |-> run.errors]]
        \* what follows `if not self._project_data: self.collect_data()`, col being
        \* the outcome of that call (the untouched state when data was held)
        after_collect(col) ==
          IF col.call.raised # "None"
          THEN result(col, [start EXCEPT !.raised = col.call.raised])
          ELSE result(col, generate_loop(cfg, col.project_data, names, cfg.output.directory,
                                         fmt, engine, failing, 1, start))
    IN  after_collect(IF IsNone(held)
                      THEN collect_data(cfg, beh, reg, held, FALSE, now)
                      ELSE [reg |-> reg, project_data |-> held,
                            call |-> [raised |-> "None"]])

TemplateArgs ==
    {None, Some(<<"readme">>), Some(<<"changelog", "missing">>),
     Some(<<"missing", "readme", "changelog">>)}

GenerateDocuments ==
    /\ Len(gen_calls) < MaxGenCalls
    /\ \E templates \in TemplateArgs :
         \E r \in { generate_documents(config, connector_behaviour, registry,
                                       project_data, templates, enum_format,
                                       template_engine, generator_fails, clock + 1) } :
             /\ registry' = r.reg
             /\ project_data' = r.project_data
             /\ collect_calls' = IF IsNone(r.collect) THEN collect_calls
                                 ELSE Append(collect_calls, r.collect[1])
             /\ gen_calls' = Append(gen_calls, r.call)
    /\ clock' = clock + 1
    /\ UNCHANGED <<config, connector_behaviour, enum_format, template_engine,
                   generator_fails, latest_release, reg_ops, all_calls,
                   generation_stats, aux_vars>>

----------------------------------------------------------------------------
(* Specification of generation: at most MaxTemplates templates, any list of *)
(* output formats, at most MaxGenCalls calls of generate_documents.         *)

NoVariables == [k \in {} |-> ""]

\* TemplateConfig: name, output, template_file, variables, enabled
TemplateCases ==
    { [name |-> "readme", output |-> <<"README", "md">>, template_file |-> None,
       variables |-> NoVariables,
       enabled |-> TRUE],
      [name |-> "readme", output |-> <<"README", "md">>, template_file |-> None,
       variables |-> NoVariables,
       enabled |-> FALSE],
      [name |-> "changelog", output |-> <<"CHANGELOG", "md">>, template_file |-> None,
       variables |-> NoVariables,
       enabled |-> TRUE],
      [name |-> "changelog", output |-> <<"README", "txt">>,
       template_file |-> None,
       variables |-> [k \in {"project", "latest_release"} |-> "custom"],
       enabled |-> TRUE],
      [name |-> "notes", output |-> <<"notes">>, template_file |-> None,
       variables |-> NoVariables,
       enabled |-> TRUE] }

FormatLists ==
    { <<"markdown">>, <<"markdown", "html">>, <<"html", "markdown">>,
      <<"markdown", "pdf", "html">> }

GenSourceCases ==
    { <<>>,
      << [cfg |-> [type |-> "local_files", name |-> "src", enabled |-> TRUE],
          collect |-> "ok"] >>,
      << [cfg |-> [type |-> "github", name |-> "src", enabled |-> TRUE],
          collect |-> "raise"] >> }

InitGen ==
    /\ \E cases \in GenSourceCases, ts \in SeqsUpTo(TemplateCases, MaxTemplates),
          fs \in FormatLists :
         /\ config = [project |-> [name |-> "proj", description |-> None],
                      sources |-> [k \in 1..Len(cases) |-> cases[k].cfg],
                      templates |-> ts,
                      output |-> [directory |-> "output", formats |-> fs,
                                  clean_before |-> FALSE],
                      continue_on_error |-> None]
         /\ connector_behaviour = [k \in 1..Len(cases) |-> cases[k].collect]
    /\ registry = NewRegistry
    /\ project_data = None
    /\ clock = 0
    /\ collect_calls = <<>>
    /\ gen_calls = <<>>
    /\ enum_format \in {"value", "member"}
    /\ template_engine \in { {"readme", "changelog", "notes"}, {"readme"} }
    /\ generator_fails \in { {}, {"html"} }
    /\ latest_release = <<>>
    /\ reg_ops = <<>>
    /\ all_calls = <<>>
    /\ generation_stats = None
    /\ preview_calls = <<>>
    /\ test_calls = <<>>
    /\ context_calls = <<>>
    /\ dep_calls = <<>>
    /\ importable = {}

NextGen == GenerateDocuments

SpecGen == InitGen /\ [][NextGen]_vars

----------------------------------------------------------------------------
(* Project.validate_config (project.py:287-312) and                         *)
(* DocumentGenerator.generate_all (generator.py:37-94)                      *)

\* TemplateEngine.has_template(name): the engine is an external collaborator;
\* it has the templates that it renders
has_template(engine, name) == name \in engine

\* `for source in self.config.sources:` of validate_config from the k-th
\* source on (every declared source, enabled or not); has_connector may
\* start dynamic discovery, so the registry is threaded through
RECURSIVE validate_sources(_, _, _, _)
validate_sources(cfg, reg, k, errors) ==
    IF k > Len(cfg.sources) THEN [reg |-> reg, errors |-> errors]
    ELSE LET after_has(h) ==
               validate_sources(cfg, h.reg, k + 1,
                                IF h.found THEN errors
                                ELSE Append(errors, [error |-> "Connecteur non disponible",
                                                     name |-> cfg.sources[k].type]))
         IN  after_has(has_connector(reg, cfg.sources[k].type))

\* the errors of the template loop and of the generator loop of validate_config
template_errors(cfg, engine) ==
    LET idx == SelectSeq(Positions(cfg.templates),
                         LAMBDA k : /\ ~has_template(engine, cfg.templates[k].name)
                                    /\ IsNone(cfg.templates[k].template_file))
    IN  [k \in 1..Len(idx) |-> [error |-> "Template non trouve",
                                name |-> cfg.templates[idx[k]].name]]

generator_errors(cfg) ==
    LET idx == SelectSeq(Positions(cfg.output.formats),
                         LAMBDA k : cfg.output.formats[k] \notin Generators)
    IN  [k \in 1..Len(idx) |-> [error |-> "Generateur non disponible",
                                name |-> cfg.output.formats[idx[k]]]]

\* variant of validate_config that does not validate the output formats
validate_config_without_generators(cfg, reg, engine) ==
    LET after_sources(v) ==
          [reg |-> v.reg, errors |-> v.errors \o template_errors(cfg, engine)]
    IN  after_sources(validate_sources(cfg, reg, 1, <<>>))

\* Project.validate_config: the registry afterwards and the list of errors
validate_config(cfg, reg, engine) ==
    LET after_sources(v) ==
          [reg |-> v.reg,
           errors |-> v.errors \o template_errors(cfg, engine) \o generator_errors(cfg)]
    IN  after_sources(validate_sources(cfg, reg, 1, <<>>))

\* variant of validation_failed that lets every configuration pass
validation_failed_never(errors) == FALSE

\* `if errors:` after validate_config (generator.py:59)
validation_failed(errors) == errors # <<>>

\* variant of generation_stats_of that counts every declared template
generation_stats_of_all_templates(cfg, generated_files, data) ==
    [files_generated |-> Len(generated_files),
     data_sources |-> Len(get_enabled_sources(cfg)),
     templates_used |-> Len(cfg.templates),
     commits_processed |-> Len(commits(data)),
     issues_processed |-> Len(issues(data)),
     prs_processed |-> Len(pull_requests(data))]

\* the dict assigned to self._generation_stats (generator.py:69-79), without
\* its timestamps; the three *_processed entries read project_data.commits,
\* .issues and .pull_requests
generation_stats_of(cfg, generated_files, data) ==
    [files_generated |-> Len(generated_files),
     data_sources |-> Len(get_enabled_sources(cfg)),
     templates_used |-> Len(get_enabled_templates(cfg)),
     commits_processed |-> Len(commits(data)),
     issues_processed |-> Len(issues(data)),
     prs_processed |-> Len(pull_requests(data))]

\* DocumentGenerator.get_generation_stats (generator.py:135-142)
get_generation_stats(stats) == stats

\* the whole call of generate_all: the registry, _project_data and
\* _generation_stats afterwards, the records of the collect_data and
\* generate_documents calls it made, and the record of the call itself
\* (phases: the steps it started, in order)
generate_all(cfg, beh, reg, held, force_refresh, fmt, engine, failing, now, stats) ==
    LET result(reg2, data, collects, gen, raised, files, errors, stats2, phases) ==
          [reg |-> reg2, project_data |-> data, collects |-> collects, gen |-> gen,
           stats |-> stats2,
           call |-> [force_refresh |-> force_refresh, errors |-> errors,
                     raised |-> raised,
                     value |-> IF raised = "None" THEN Some(files) ELSE None,
                     held_before |-> held, collects |-> collects, gen |-> gen,
                     stats |-> stats2, phases |-> phases]]
        \* the collect_data calls of the run: the one of generate_all, then the
        \* one generate_documents made, if any
        collects_of(col, g) ==
          IF IsNone(g.collect) THEN <<col.call>> ELSE <<col.call, g.collect[1]>>
        \* step 4, after generate_documents returned
        after_generate(col, g) ==
          IF g.call.raised # "None"
          THEN result(g.reg, g.project_data, collects_of(col, g), Some(g.call),
                      g.call.raised, <<>>, <<>>, stats,
                      <<"validate", "collect", "generate">>)
          ELSE IF ~col.call.value[1].extras \* len(project_data.commits)
          THEN result(g.reg, g.project_data, collects_of(col, g), Some(g.call),
                      "AttributeError", <<>>, <<>>, stats,
                      <<"validate", "collect", "generate", "stats">>)
          ELSE result(g.reg, g.project_data, collects_of(col, g), Some(g.call),
                      "None", g.call.generated_files, <<>>,
                      Some(generation_stats_of(cfg, g.call.generated_files, col.call.value[1])),
                      <<"validate", "collect", "generate", "stats">>)
        \* step 3, after collect_data returned
        after_collect(col) ==
          IF col.call.raised # "None"
          THEN result(col.reg, col.project_data, <<col.call>>, None, col.call.raised,
                      <<>>, <<>>, stats, <<"validate", "collect">>)
          ELSE after_generate(col, generate_documents(cfg, beh, col.reg, col.project_data,
                                                      None, fmt, engine, failing, now))
        \* step 2, after validate_config returned
        after_validate(v) ==
          IF validation_failed(v.errors)
          THEN result(v.reg, held, <<>>, None, "ValueError", <<>>, v.errors, stats,
                      <<"validate">>)
          ELSE after_collect(collect_data(cfg, beh, v.reg, held, force_refresh, now))
    IN  after_validate(validate_config(cfg, reg, engine))

\* variant of preview_generation that counts every declared template
preview_generation_all_templates(cfg) ==
    [project_name |-> cfg.project.name,
     output_directory |-> cfg.output.directory,
     output_formats |-> cfg.output.formats,
     sources |-> [k \in 1..Len(get_enabled_sources(cfg)) |->
                    cfg.sources[get_enabled_sources(cfg)[k]]],
     templates |-> get_enabled_templates(cfg),
     estimated_files |-> Len(cfg.templates) * Len(cfg.output.formats)]

\* DocumentGenerator.preview_generation (generator.py:144-177): the dict it
\* returns; the templates are listed by name
preview_generation(cfg) ==
    [project_name |-> cfg.project.name,
     output_directory |-> cfg.output.directory,
     output_formats |-> cfg.output.formats,
     sources |-> [k \in 1..Len(get_enabled_sources(cfg)) |->
                    cfg.sources[get_enabled_sources(cfg)[k]]],
     templates |-> get_enabled_templates(cfg),
     estimated_files |-> Len(get_enabled_templates(cfg)) * Len(cfg.output.formats)]

\* preview_generation reads self.project.config only and assigns nothing
PreviewGeneration ==
    /\ Len(preview_calls) < MaxPreviewCalls
    /\ preview_calls' = Append(preview_calls, preview_generation(config))
    /\ UNCHANGED <<config, connector_behaviour, registry, project_data, clock,
                   collect_calls, gen_calls, enum_format, template_engine,
                   generator_fails, latest_release, reg_ops, all_calls,
                   generation_stats, test_calls, context_calls, dep_calls, importable>>

GenerateAll ==
    /\ Len(all_calls) < MaxAllCalls
    /\ \E force_refresh \in BOOLEAN :
         \E r \in { generate_all(config, connector_behaviour, registry, project_data,
                                 force_refresh, enum_format, template_engine,
                                 generator_fails, clock + 1, generation_stats) } :
             /\ registry' = r.reg
             /\ project_data' = r.project_data
             /\ collect_calls' = collect_calls \o r.collects
             /\ gen_calls' = gen_calls \o r.gen
             /\ all_calls' = Append(all_calls, r.call)
             /\ generation_stats' = r.stats
    /\ clock' = clock + 1
    /\ UNCHANGED <<config, connector_behaviour, enum_format, template_engine,
                   generator_fails, latest_release, reg_ops, aux_vars>>

----------------------------------------------------------------------------
(* Specification of complete runs: at most MaxAllCalls calls of            *)
(* generate_all on one project.                                            *)

\* a template rendered from a file of its own, unknown to the engine by name
CustomFileTemplate ==
    [name |-> "custom", output |-> <<"CUSTOM", "md">>, template_file |-> Some("custom.j2"),
     variables |-> NoVariables, enabled |-> FALSE]

AllSourceCases ==
    { <<>>,
      << [cfg |-> [type |-> "local_files", name |-> "src", enabled |-> TRUE],
          collect |-> "ok"] >>,
      << [cfg |-> [type |-> "local_files", name |-> "src", enabled |-> TRUE],
          collect |-> "raise"] >>,
      << [cfg |-> [type |-> "github", name |-> "src", enabled |-> TRUE],
          collect |-> "ok"] >>,
      << [cfg |-> [type |-> "jira", name |-> "tickets", enabled |-> TRUE],
          collect |-> "ok"],
         [cfg |-> [type |-> "local_files", name |-> "src", enabled |-> TRUE],
          collect |-> "ok"] >>,
      << [cfg |-> [type |-> "local_files", name |-> "src", enabled |-> TRUE],
          collect |-> "ok"],
         [cfg |-> [type |-> "nosuch", name |-> "old", enabled |-> FALSE],
          collect |-> "ok"] >> }

InitAll ==
    /\ \E cases \in AllSourceCases,
          ts \in SeqsUpTo(TemplateCases \cup {CustomFileTemplate}, MaxTemplates),
          fs \in FormatLists :
         /\ config = [project |-> [name |-> "proj", description |-> None],
                      sources |-> [k \in 1..Len(cases) |-> cases[k].cfg],
                      templates |-> ts,
                      output |-> [directory |-> "output", formats |-> fs,
                                  clean_before |-> FALSE],
                      continue_on_error |-> None]
         /\ connector_behaviour = [k \in 1..Len(cases) |-> cases[k].collect]
    /\ registry = NewRegistry
    /\ project_data = None
    /\ clock = 0
    /\ collect_calls = <<>>
    /\ gen_calls = <<>>
    /\ enum_format = "value"
    /\ template_engine \in { {"readme", "changelog", "notes"}, {"readme"} }
    /\ generator_fails \in { {}, {"html"} }
    /\ latest_release = <<>>
    /\ reg_ops = <<>>
    /\ all_calls = <<>>
    /\ generation_stats = None
    /\ preview_calls = <<>>
    /\ test_calls = <<>>
    /\ context_calls = <<>>
    /\ dep_calls = <<>>
    /\ importable = {}

NextAll ==
    \/ GenerateAll
    \/ PreviewGeneration

SpecAll == InitAll /\ [][NextAll]_vars

----------------------------------------------------------------------------
(* Specification of release selection: get_latest_release applied to the    *)
(* data of any list of at most MaxReleases releases.                        *)

GetLatestRelease ==
    /\ Len(latest_release) < MaxRelCalls
    /\ ~IsNone(project_data)
    /\ latest_release' = Append(latest_release, get_latest_release(project_data[1]))
    /\ UNCHANGED <<config, connector_behaviour, registry, project_data, clock,
                   collect_calls, gen_calls, enum_format, template_engine,
                   generator_fails, reg_ops, all_calls, generation_stats,
                   aux_vars>>

ReleaseCases ==
    [published_at : {None} \cup { Some(t) : t \in 1..MaxTime }, is_draft : BOOLEAN]

InitRel ==
    /\ config = [project |-> [name |-> "proj", description |-> None],
                 sources |-> <<>>, templates |-> <<>>, output |-> NoOutput,
                 continue_on_error |-> None]
    /\ connector_behaviour = <<>>
    /\ registry = NewRegistry
    /\ \E rs \in SeqsUpTo(ReleaseCases, MaxReleases) :
         project_data =
           Some(ProjectData(None, None, Repository("repo", "org/repo", None),
                            [k \in 1..Len(rs) |->
                               Release("v" \o ToString(k), rs[k].published_at,
                                       rs[k].is_draft)],
                            0, "github", None, FALSE, [call |-> 0, source |-> 1]))
    /\ clock = 0
    /\ collect_calls = <<>>
    /\ gen_calls = <<>>
    /\ enum_format = "value"
    /\ template_engine = {}
    /\ generator_fails = {}
    /\ latest_release = <<>>
    /\ reg_ops = <<>>
    /\ all_calls = <<>>
    /\ generation_stats = None
    /\ preview_calls = <<>>
    /\ test_calls = <<>>
    /\ context_calls = <<>>
    /\ dep_calls = <<>>
    /\ importable = {}

NextRel == GetLatestRelease

SpecRel == InitRel /\ [][NextRel]_vars

----------------------------------------------------------------------------
(* Specification of the registry: at most MaxRegOps operations of a host on *)
(* one ConnectorRegistry instance.                                          *)

\* the record of one finished operation
RegOp(op, arg, raised, instance, found, imported, before, after) ==
    [op |-> op, arg |-> arg, raised |-> raised, instance |-> instance, found |-> found,
     imported |-> imported, before |-> before, after |-> after]

\* ConnectorRegistry.list_connectors: get_connector for every registered type
\* that has no cached instance yet
RECURSIVE list_connectors(_)
list_connectors(reg) ==
    IF DOMAIN reg.connectors \subseteq DOMAIN reg.instances THEN reg
    ELSE list_connectors(
             get_connector(reg, CHOOSE t \in DOMAIN reg.connectors :
                                    t \notin DOMAIN reg.instances).reg)

\* ConnectorRegistry.load_plugin_connector for a module of wara9a.connectors
\* given by its name: an import error is logged and raised again
load_plugin_connector(reg, name) ==
    IF name \in BuiltinModules
    THEN [reg |-> register_connectors_from_module(reg, module_connectors(name), 1),
          raised |-> "None"]
    ELSE [reg |-> reg, raised |-> "ImportError"]

RegisterArgs == {"A", "B", "GitConnector", "NotAConnector"}
TypeArgs == {"custom", "github", "nosuch"}
PluginArgs == {"github", "nosuch"}

RegUnchanged ==
    UNCHANGED <<config, connector_behaviour, project_data, clock, collect_calls,
                gen_calls, enum_format, template_engine, generator_fails,
                latest_release, all_calls, generation_stats, aux_vars>>

RegisterConnector ==
    /\ Len(reg_ops) < MaxRegOps
    /\ \E c \in RegisterArgs :
         \E r \in { register_connector(registry, c) } :
             /\ registry' = r.reg
             /\ reg_ops' = Append(reg_ops, RegOp("register_connector", c, r.raised, None,
                                                 FALSE, <<>>, registry, r.reg))
    /\ RegUnchanged

GetConnector ==
    /\ Len(reg_ops) < MaxRegOps
    /\ \E t \in TypeArgs :
         \E r \in { get_connector(registry, t) } :
             /\ registry' = r.reg
             /\ reg_ops' = Append(reg_ops, RegOp("get_connector", t, r.raised, r.instance,
                                                 r.raised = "None", r.imported,
                                                 registry, r.reg))
    /\ RegUnchanged

HasConnector ==
    /\ Len(reg_ops) < MaxRegOps
    /\ \E t \in TypeArgs :
         \E r \in { has_connector(registry, t) } :
             /\ registry' = r.reg
             /\ reg_ops' = Append(reg_ops, RegOp("has_connector", t, "None", None, r.found,
                                                 r.imported, registry, r.reg))
    /\ RegUnchanged

ListConnectors ==
    /\ Len(reg_ops) < MaxRegOps
    /\ \E r \in { list_connectors(registry) } :
         /\ registry' = r
         /\ reg_ops' = Append(reg_ops, RegOp("list_connectors", "", "None", None, FALSE,
                                             <<>>, registry, r))
    /\ RegUnchanged

LoadPluginConnector ==
    /\ Len(reg_ops) < MaxRegOps
    /\ \E name \in PluginArgs :
         \E r \in { load_plugin_connector(registry, name) } :
             /\ registry' = r.reg
             /\ reg_ops' = Append(reg_ops, RegOp("load_plugin_connector", name, r.raised,
                                                 None, FALSE, <<>>, registry, r.reg))
    /\ RegUnchanged

Clear ==
    /\ Len(reg_ops) < MaxRegOps
    /\ \E r \in { registry_clear(registry) } :
         /\ registry' = r
         /\ reg_ops' = Append(reg_ops, RegOp("clear", "", "None", None, FALSE, <<>>,
                                             registry, r))
    /\ RegUnchanged

InitReg ==
    /\ config = [project |-> [name |-> "proj", description |-> None],
                 sources |-> <<>>, templates |-> <<>>, output |-> NoOutput,
                 continue_on_error |-> None]
    /\ connector_behaviour = <<>>
    /\ registry = NewRegistry
    /\ project_data = None
    /\ clock = 0
    /\ collect_calls = <<>>
    /\ gen_calls = <<>>
    /\ enum_format = "value"
    /\ template_engine = {}
    /\ generator_fails = {}
    /\ latest_release = <<>>
    /\ reg_ops = <<>>
    /\ all_calls = <<>>
    /\ generation_stats = None
    /\ preview_calls = <<>>
    /\ test_calls = <<>>
    /\ context_calls = <<>>
    /\ dep_calls = <<>>
    /\ importable = {}

NextReg ==
    \/ RegisterConnector
    \/ GetConnector
    \/ HasConnector
    \/ ListConnectors
    \/ LoadPluginConnector
    \/ Clear

SpecReg == InitReg /\ [][NextReg]_vars

----------------------------------------------------------------------------
(* ConnectorBase.test_connection (connector_base.py:108-130) and its        *)
(* specification: at most MaxTestCalls connection tests on the sources of   *)
(* one configuration.                                                       *)

\* A source config here carries the optional attributes max_commits and
\* max_issues (None: the object has no such attribute).

\* what connector.collect(config) raises ("None": it returns data) for a
\* source whose connector behaves as beh: "ok_if_limited" stands for a source
\* that can only be collected with limits of at most 1 (time-outs, rate limits)
collect_outcome(beh, source_config) ==
    IF beh = "ok" THEN "None"
    ELSE IF beh = "raise" THEN "ConnectorError"
    ELSE IF /\ (source_config.max_commits = None \/ source_config.max_commits[1] <= 1)
            /\ (source_config.max_issues = None \/ source_config.max_issues[1] <= 1)
         THEN "None"
         ELSE "ConnectorConnectionError"

\* `if hasattr(test_config, name): test_config.name = 1` for both limits
limit_data(test_config) ==
    [test_config EXCEPT !.max_commits = IF @ = None THEN None ELSE Some(1),
                        !.max_issues = IF @ = None THEN None ELSE Some(1)]

\* variant of test_connection that sets the limits on the caller's config
\* instead of a copy
test_connection_without_copy(beh, source_config) ==
    [value |-> collect_outcome(beh, limit_data(source_config)) = "None",
     raised |-> "None",
     collected_with |-> limit_data(source_config),
     config |-> limit_data(source_config)]

\* the whole method: the value returned, the exception raised, the config
\* that collect received and the caller's config afterwards; model_copy()
\* gives a new object, so the two assignments do not reach the caller's config
test_connection(beh, source_config) ==
    [value |-> collect_outcome(beh, limit_data(source_config)) = "None",
     raised |-> "None",
     collected_with |-> limit_data(source_config),
     config |-> source_config]

TestConnection ==
    /\ Len(test_calls) < MaxTestCalls
    /\ \E k \in DOMAIN config.sources :
         \E r \in { test_connection(connector_behaviour[k], config.sources[k]) } :
             /\ config' = [config EXCEPT !.sources[k] = r.config]
             /\ test_calls' = Append(test_calls,
                                     [source |-> k, config_before |-> config.sources[k],
                                      value |-> r.value, raised |-> r.raised,
                                      collected_with |-> r.collected_with])
    /\ UNCHANGED <<connector_behaviour, registry, project_data, clock, collect_calls,
                   gen_calls, enum_format, template_engine, generator_fails,
                   latest_release, reg_ops, all_calls, generation_stats,
                   preview_calls, context_calls, dep_calls, importable>>

ConnSourceCases ==
    [cfg : [type : {"github", "local_files"}, name : {"src"}, enabled : {TRUE},
            max_commits : {None, Some(1), Some(100)}, max_issues : {None, Some(100)}],
     collect : {"ok", "raise", "ok_if_limited"}]

InitConn ==
    /\ \E cases \in SeqsUpTo(ConnSourceCases, 2) \ { <<>> } :
         /\ config = [project |-> [name |-> "proj", description |-> None],
                      sources |-> [k \in 1..Len(cases) |-> cases[k].cfg],
                      templates |-> <<>>, output |-> NoOutput,
                      continue_on_error |-> None]
         /\ connector_behaviour = [k \in 1..Len(cases) |-> cases[k].collect]
    /\ registry = NewRegistry
    /\ project_data = None
    /\ clock = 0
    /\ collect_calls = <<>>
    /\ gen_calls = <<>>
    /\ enum_format = "value"
    /\ template_engine = {}
    /\ generator_fails = {}
    /\ latest_release = <<>>
    /\ reg_ops = <<>>
    /\ all_calls = <<>>
    /\ generation_stats = None
    /\ preview_calls = <<>>
    /\ test_calls = <<>>
    /\ context_calls = <<>>
    /\ dep_calls = <<>>
    /\ importable = {}

NextConn == TestConnection

SpecConn == InitConn /\ [][NextConn]_vars

----------------------------------------------------------------------------
(* DependencyManager (wara9a/core/dependencies.py) and its specification:   *)
(* at most MaxDepCalls calls of auto_install_dependencies in one            *)
(* environment, whose importable modules are the variable importable.       *)

\* DependencyManager.CONNECTOR_DEPENDENCIES and GENERATOR_DEPENDENCIES: the
\* packages of a dependency and the module whose import proves it installed
CONNECTOR_DEPENDENCIES ==
    [github |-> [packages |-> {"pygithub", "requests"}, test_import |-> "github"],
     jira |-> [packages |-> {"jira", "requests"}, test_import |-> "jira"],
     azure_devops |-> [packages |-> {"azure-devops"}, test_import |-> "azure.devops"]]

GENERATOR_DEPENDENCIES ==
    [pdf |-> [packages |-> {"reportlab", "weasyprint"}, test_import |-> "reportlab"],
     advanced_markdown |-> [packages |-> {"markdown", "python-markdown-math"},
                            test_import |-> "markdown"],
     docx |-> [packages |-> {"python-docx"}, test_import |-> "docx"]]

\* the modules that the packages of a pip install make importable
installed_modules(packages) ==
    { d.test_import : d \in { CONNECTOR_DEPENDENCIES[t] : t \in DOMAIN CONNECTOR_DEPENDENCIES }
                             \cup { GENERATOR_DEPENDENCIES[g] : g \in DOMAIN GENERATOR_DEPENDENCIES } }
    \cap { m \in {"github", "jira", "azure.devops", "reportlab", "markdown", "docx"} :
             \E d \in { CONNECTOR_DEPENDENCIES[t] : t \in DOMAIN CONNECTOR_DEPENDENCIES }
                      \cup { GENERATOR_DEPENDENCIES[g] : g \in DOMAIN GENERATOR_DEPENDENCIES } :
                 d.test_import = m /\ d.packages \subseteq packages }

\* DependencyManager._check_import: importlib.util.find_spec(module_name) is not None
check_import(env, module_name) == module_name \in env

\* str(format_name).lower() for a member of OutputFormat, a str-mixin Enum
\* whose str() is "OutputFormat.<MEMBER>"
format_str(format_name) ==
    CASE format_name = "markdown" -> "outputformat.markdown"
      [] format_name = "html" -> "outputformat.html"
      [] format_name = "pdf" -> "outputformat.pdf"

\* the generator that the loop over config.output.formats checks for one
\* format (None: neither branch is taken)
generator_dependency(format_name) ==
    IF format_str(format_name) = "pdf" THEN Some("pdf")
    ELSE IF format_str(format_name) \in {"html", "markdown"} THEN Some("advanced_markdown")
    ELSE None

\* DependencyManager.check_config_dependencies: the missing connectors and
\* generators in the order found, and the deduplicated packages
check_config_dependencies(cfg, env) ==
    LET cs == SelectSeq(Positions(cfg.sources),
                        LAMBDA k : /\ cfg.sources[k].enabled
                                   /\ cfg.sources[k].type \in DOMAIN CONNECTOR_DEPENDENCIES
                                   /\ ~check_import(env, CONNECTOR_DEPENDENCIES[cfg.sources[k].type].test_import))
        gs == SelectSeq(Positions(cfg.output.formats),
                        LAMBDA k : /\ generator_dependency(cfg.output.formats[k]) # None
                                   /\ ~check_import(env, GENERATOR_DEPENDENCIES[generator_dependency(cfg.output.formats[k])[1]].test_import))
    IN  [connectors |-> [k \in 1..Len(cs) |-> cfg.sources[cs[k]].type],
         generators |-> [k \in 1..Len(gs) |-> generator_dependency(cfg.output.formats[gs[k]])[1]],
         packages |-> UNION ({ CONNECTOR_DEPENDENCIES[cfg.sources[k].type].packages : k \in Range(cs) }
                             \cup { GENERATOR_DEPENDENCIES[generator_dependency(cfg.output.formats[k])[1]].packages : k \in Range(gs) })]

\* any(missing.values())
any_missing(missing) ==
    missing.connectors # <<>> \/ missing.generators # <<>> \/ missing.packages # {}

\* DependencyManager._install_packages: no pip run for an empty list, else one
\* `pip install`; outcome is what that run does: "ok" (return code 0, the
\* modules importable), "not_visible" (return code 0, but find_spec still does
\* not find the modules in this process), "fail" (non-zero code, time-out or
\* any exception)
install_packages(packages, env, outcome) ==
    IF packages = {} THEN [success |-> TRUE, pip |-> <<>>, env |-> env]
    ELSE [success |-> outcome \in {"ok", "not_visible"},
          pip |-> << [packages |-> packages, outcome |-> outcome] >>,
          env |-> IF outcome = "ok" THEN env \cup installed_modules(packages) ELSE env]

\* variant of auto_install_dependencies that installs in simulation mode too
auto_install_dependencies_ignoring_dry_run(cfg, env, auto_install, dry_run, outcome) ==
    LET missing == check_config_dependencies(cfg, env)
        after_install(inst) ==
            [value |-> inst.success /\ ~any_missing(check_config_dependencies(cfg, inst.env)),
             pip |-> inst.pip, env |-> inst.env]
    IN  IF ~any_missing(missing) THEN [value |-> TRUE, pip |-> <<>>, env |-> env]
        ELSE IF ~auto_install THEN [value |-> FALSE, pip |-> <<>>, env |-> env]
        ELSE after_install(install_packages(missing.packages, env, outcome))

\* DependencyManager.auto_install_dependencies on a manager built with
\* auto_install and dry_run: the value returned, the pip runs and the
\* environment afterwards
auto_install_dependencies(cfg, env, auto_install, dry_run, outcome) ==
    LET missing == check_config_dependencies(cfg, env)
        after_install(inst) ==
            [value |-> inst.success /\ ~any_missing(check_config_dependencies(cfg, inst.env)),
             pip |-> inst.pip, env |-> inst.env]
    IN  IF ~any_missing(missing) THEN [value |-> TRUE, pip |-> <<>>, env |-> env]
        ELSE IF ~auto_install THEN [value |-> FALSE, pip |-> <<>>, env |-> env]
        ELSE IF dry_run THEN [value |-> TRUE, pip |-> <<>>, env |-> env]
        ELSE after_install(install_packages(missing.packages, env, outcome))

AutoInstallDependencies ==
    /\ Len(dep_calls) < MaxDepCalls
    /\ \E auto_install \in BOOLEAN, dry_run \in BOOLEAN, outcome \in {"ok", "not_visible", "fail"} :
         \E r \in { auto_install_dependencies(config, importable, auto_install, dry_run, outcome) } :
             /\ importable' = r.env
             /\ dep_calls' = Append(dep_calls,
                                    [auto_install |-> auto_install, dry_run |-> dry_run,
                                     env_before |-> importable, value |-> r.value,
                                     pip |-> r.pip])
    /\ UNCHANGED <<config, connector_behaviour, registry, project_data, clock, collect_calls,
                   gen_calls, enum_format, template_engine, generator_fails,
                   latest_release, reg_ops, all_calls, generation_stats,
                   preview_calls, test_calls, context_calls>>

DepSourceCases == [type : {"github", "jira", "local_files"}, name : {"src"}, enabled : BOOLEAN]

InitDeps ==
    /\ \E ss \in SeqsUpTo(DepSourceCases, 2), fs \in FormatLists :
         config = [project |-> [name |-> "proj", description |-> None],
                   sources |-> ss, templates |-> <<>>,
                   output |-> [directory |-> "output", formats |-> fs, clean_before |-> FALSE],
                   continue_on_error |-> None]
    /\ importable \in SUBSET {"github", "jira", "markdown"}
    /\ connector_behaviour = [k \in 1..Len(config.sources) |-> "ok"]
    /\ registry = NewRegistry
    /\ project_data = None
    /\ clock = 0
    /\ collect_calls = <<>>
    /\ gen_calls = <<>>
    /\ enum_format = "value"
    /\ template_engine = {}
    /\ generator_fails = {}
    /\ latest_release = <<>>
    /\ reg_ops = <<>>
    /\ all_calls = <<>>
    /\ generation_stats = None
    /\ preview_calls = <<>>
    /\ test_calls = <<>>
    /\ context_calls = <<>>
    /\ dep_calls = <<>>

NextDeps == AutoInstallDependencies

SpecDeps == InitDeps /\ [][NextDeps]_vars

----------------------------------------------------------------------------
(* Specification of context building: at most MaxContextCalls calls of      *)
(* _prepare_template_context on a project that holds no data yet or the     *)
(* data of an earlier collection.                                           *)

PrepareTemplateContext ==
    /\ Len(context_calls) < MaxContextCalls
    /\ \E k \in DOMAIN config.templates :
         \E r \in { prepare_template_context(config, project_data, config.templates[k]) } :
             /\ project_data' = r.project_data
             /\ context_calls' = Append(context_calls,
                                        [template |-> k, data_before |-> project_data,
                                         raised |-> r.raised, context |-> r.context])
    /\ UNCHANGED <<config, connector_behaviour, registry, clock, collect_calls,
                   gen_calls, enum_format, template_engine, generator_fails,
                   latest_release, reg_ops, all_calls, generation_stats,
                   preview_calls, test_calls, dep_calls, importable>>

CtxSourceCases ==
    { <<>>,
      << [type |-> "local_files", name |-> "src", enabled |-> TRUE] >>,
      << [type |-> "github", name |-> "src", enabled |-> TRUE] >>,
      << [type |-> "jira", name |-> "tickets", enabled |-> TRUE],
         [type |-> "local_files", name |-> "src", enabled |-> TRUE] >>,
      << [type |-> "github", name |-> "src", enabled |-> FALSE],
         [type |-> "local_files", name |-> "src", enabled |-> TRUE] >> }

\* the data an earlier collect_data left in self._project_data: that of the
\* first enabled source, or the data created when there is none
CollectedBefore(cfg) ==
    IF get_enabled_sources(cfg) = <<>> THEN empty_project_data(cfg, 1)
    ELSE connector_collect(get_enabled_sources(cfg)[1],
                           cfg.sources[get_enabled_sources(cfg)[1]], 1)

InitCtx ==
    /\ \E ss \in CtxSourceCases, ts \in SeqsUpTo(TemplateCases, MaxTemplates) \ { <<>> } :
         config = [project |-> [name |-> "proj", description |-> None],
                   sources |-> ss, templates |-> ts,
                   output |-> [directory |-> "output", formats |-> <<"markdown">>,
                               clean_before |-> FALSE],
                   continue_on_error |-> None]
    /\ project_data \in {None, Some(CollectedBefore(config))}
    /\ clock = IF project_data = None THEN 0 ELSE 1
    /\ connector_behaviour = [k \in 1..Len(config.sources) |-> "ok"]
    /\ registry = NewRegistry
    /\ collect_calls = <<>>
    /\ gen_calls = <<>>
    /\ enum_format = "value"
    /\ template_engine = {"readme", "changelog", "notes"}
    /\ generator_fails = {}
    /\ latest_release = <<>>
    /\ reg_ops = <<>>
    /\ all_calls = <<>>
    /\ generation_stats = None
    /\ preview_calls = <<>>
    /\ test_calls = <<>>
    /\ context_calls = <<>>
    /\ dep_calls = <<>>
    /\ importable = {}

NextCtx == PrepareTemplateContext

SpecCtx == InitCtx /\ [][NextCtx]_vars

----------------------------------------------------------------------------
(* Vocabulary of the claims about collection *)

\* the declared positions of the enabled sources, in declared order
DeclaredEnabled == SelectSeq([k \in 1..Len(config.sources) |-> k],
                             LAMBDA k : config.sources[k].enabled)

\* the connector of source k can be resolved / its collect returns data
Resolvable(k) == config.sources[k].type \in BuiltinModules
CollectSucceeds(k) == Resolvable(k) /\ connector_behaviour[k] = "ok"
SucceedingSources == { k \in Range(DeclaredEnabled) : CollectSucceeds(k) }
FailingSources == { k \in Range(DeclaredEnabled) : ~CollectSucceeds(k) }

\* d is the ProjectData that the connector of source k returns
IsDataOfSource(d, k) == d = connector_collect(k, config.sources[k], d.collected_at)

\* d is the minimal ProjectData synthesized from the project metadata
IsSynthesized(d) ==
    /\ d.functional_data = None
    /\ d.technical_data = None
    /\ d.releases = <<>>
    /\ d.repository.name = config.project.name
    /\ d.repository.description = config.project.description

\* the policy the host selected: continue (the default) or abort on error
DefaultPolicy == config.continue_on_error # Some(FALSE)
AbortPolicy == config.continue_on_error = Some(FALSE)

\* the calls of collect_data that went past the cache test
FreshCalls == { n \in DOMAIN collect_calls : ~collect_calls[n].cached }

Returned(c) == c.raised = "None" /\ Len(c.value) = 1

\* a ProjectData without its collection timestamp and its object identity
WithoutCollectedAt(d) == [d EXCEPT !.collected_at = 0, !.inst = [call |-> 0, source |-> 0]]

----------------------------------------------------------------------------
(* Claims about collection, checked under SpecCollect *)

\* C1: when no source is enabled (empty list or all disabled), collect_data
\* invokes no connector and returns a synthesized ProjectData: functional_data
\* and technical_data absent, releases empty, repository name and description
\* taken from the project metadata.
C1_NoEnabledSourceSynthesized ==
    (\A k \in DOMAIN config.sources : ~config.sources[k].enabled) =>
        \A n \in DOMAIN collect_calls :
            LET c == collect_calls[n]
            IN  /\ c.attempted = <<>>
                /\ c.collected = <<>>
                /\ Returned(c)
                /\ IsSynthesized(c.value[1])

C1_Witness ==
    /\ Len(config.sources) >= 2
    /\ \A k \in DOMAIN config.sources : ~config.sources[k].enabled
    /\ \E n \in FreshCalls : Returned(collect_calls[n])

\* C2: under the default policy, when exactly one enabled source succeeds and
\* all the others fail (here: at least one other), collect_data returns
\* exactly the ProjectData of the succeeding source, whatever its position.
C2_ExactlyOneSucceeds ==
    \A n \in FreshCalls :
        LET c == collect_calls[n]
        IN  (DefaultPolicy /\ Cardinality(SucceedingSources) = 1 /\ FailingSources # {}) =>
                /\ Returned(c)
                /\ \A k \in SucceedingSources : IsDataOfSource(c.value[1], k)

\* C3: under the default policy, whenever at least one enabled source succeeds
\* (here: while another one fails), collect_data returns the ProjectData of
\* the lowest-index successful source.
C3_FirstSuccessfulWins ==
    \A n \in FreshCalls :
        LET c == collect_calls[n]
        IN  (DefaultPolicy /\ SucceedingSources # {} /\ FailingSources # {}) =>
                /\ Returned(c)
                /\ \E k \in SucceedingSources :
                      /\ \A j \in SucceedingSources : k <= j
                      /\ IsDataOfSource(c.value[1], k)

\* C4: under the default policy, a source whose connector resolution or
\* collect raises does not halt collection: every enabled source is still
\* attempted, in declared order, and collect_data returns normally.
C4_FailureDoesNotHalt ==
    \A n \in FreshCalls :
        LET c == collect_calls[n]
        IN  (DefaultPolicy /\ FailingSources # {}) =>
                /\ c.raised = "None"
                /\ c.attempted = DeclaredEnabled

\* C5: under the default policy, when at least one source is enabled and
\* every enabled source fails, collect_data returns normally a synthesized
\* minimal ProjectData (never null).
C5_AllFailSynthesized ==
    \A n \in FreshCalls :
        LET c == collect_calls[n]
        IN  (DefaultPolicy /\ DeclaredEnabled # <<>> /\ SucceedingSources = {}) =>
                /\ Returned(c)
                /\ IsSynthesized(c.value[1])

----------------------------------------------------------------------------
(* Claims about generation, checked under SpecGen *)

\* the requested template names that generate_documents processes
ProcessedTemplates(c) ==
    { j \in DOMAIN c.names :
        \E k \in DOMAIN config.templates :
            /\ config.templates[k].name = c.names[j]
            /\ \A h \in 1..(k - 1) : config.templates[h].name # c.names[j]
            /\ config.templates[k].enabled }

\* a file name without its last dot-separated component
BaseName(name) == IF Len(name) > 1 THEN SubSeq(name, 1, Len(name) - 1) ELSE name
Extension(name) == IF Len(name) > 1 THEN <<name[Len(name)]>> ELSE <<>>

\* C9: a call of generate_documents that processes one enabled template with
\* the two formats markdown and html, template engine and generators
\* succeeding, produces exactly two files that share directory and base name
\* and differ only in extension, and invokes render exactly once.
C9_TwoFilesOneRender ==
    \A n \in DOMAIN gen_calls :
        LET c == gen_calls[n]
        IN  ( /\ Cardinality(ProcessedTemplates(c)) = 1
              /\ Range(config.output.formats) = {"markdown", "html"}
              /\ Len(config.output.formats) = 2
              /\ generator_fails = {}
              /\ \A j \in ProcessedTemplates(c) : c.names[j] \in template_engine ) =>
                /\ c.raised = "None"
                /\ Len(c.rendered) = 1
                /\ Len(c.generated_files) = 2
                /\ c.generated_files[1].dir = c.generated_files[2].dir
                /\ BaseName(c.generated_files[1].name) = BaseName(c.generated_files[2].name)
                /\ Extension(c.generated_files[1].name) # Extension(c.generated_files[2].name)

----------------------------------------------------------------------------
(* Claims about release selection, checked under SpecRel *)

\* the releases that have a published_at and are not drafts
Qualifying == { k \in DOMAIN project_data[1].releases :
                  /\ project_data[1].releases[k].published_at # None
                  /\ ~project_data[1].releases[k].is_draft }

\* C10: get_latest_release returns a release of maximum published_at among the
\* releases that have a published_at and are not drafts, and returns None
\* exactly when no release qualifies (in particular for an empty list).
C10_LatestRelease ==
    \A n \in DOMAIN latest_release :
        LET r   == latest_release[n]
            rel == project_data[1].releases
        IN  /\ (r = None) <=> (Qualifying = {})
            /\ r # None =>
                 /\ \E k \in Qualifying : rel[k] = r[1]
                 /\ \A k \in Qualifying : rel[k].published_at[1] <= r[1].published_at[1]

C10_Witness ==
    /\ Len(latest_release) >= 1
    /\ latest_release[1] # None
    /\ \E k \in DOMAIN project_data[1].releases :
          LET d == project_data[1].releases[k]
          IN  /\ d.is_draft
              /\ d.published_at # None
              /\ d.published_at[1] > latest_release[1][1].published_at[1]

----------------------------------------------------------------------------
(* Claims about the registry, checked under SpecReg *)

\* the operations that (re)define what is registered for type t: a clear, a
\* successful registration of a class of that type, a plugin load
RedefinesType(o, t) ==
    \/ o.op = "clear"
    \/ o.op = "load_plugin_connector"
    \/ o.op = "register_connector" /\ o.raised = "None" /\ class_connector_type(o.arg) = t

C12_NotFoundLeavesRegistryUnchanged ==
    \A n \in DOMAIN reg_ops :
        ( /\ reg_ops[n].op = "get_connector"
          /\ reg_ops[n].arg \notin DOMAIN reg_ops[n].before.connectors
          /\ reg_ops[n].arg \notin BuiltinModules )
        => /\ reg_ops[n].raised = "ValueError"
           /\ reg_ops[n].instance = None
           /\ reg_ops[n].after.connectors = reg_ops[n].before.connectors
           /\ reg_ops[n].after.instances = reg_ops[n].before.instances

C12_Witness ==
    \E n \in DOMAIN reg_ops :
        /\ reg_ops[n].op = "get_connector"
        /\ reg_ops[n].arg = "nosuch"
        /\ reg_ops[n].imported = <<"nosuch">>
        /\ reg_ops[n].raised = "ValueError"
        /\ DOMAIN reg_ops[n].before.instances # {}

\* the operations that may start dynamic discovery
IsLookup(o) == o.op \in {"get_connector", "has_connector"}

\* C13 as claimed: on one registry instance, whatever operations are
\* interleaved, the import of wara9a.connectors.<type> is attempted at most
\* once for each type.
C13_DiscoveryAtMostOncePerInstance ==
    \A n1, n2 \in DOMAIN reg_ops :
        \A t \in TypeArgs :
            (t \in Range(reg_ops[n1].imported) /\ t \in Range(reg_ops[n2].imported))
            => n1 = n2

\* C13, amended: the import of wara9a.connectors.<type> is attempted at most
\* once for each type between construction and the next clear(), and between
\* two clear() calls: a later lookup of that type attempts no import and
\* answers from the registrations alone (it fails when discovery had failed
\* and no class of the type was registered since), until clear() forgets
\* the attempts.
C13_DiscoveryAtMostOnceUntilClear ==
    \A n1, n2 \in DOMAIN reg_ops :
        \A t \in TypeArgs :
            ( /\ n1 < n2
              /\ t \in Range(reg_ops[n1].imported)
              /\ IsLookup(reg_ops[n2]) /\ reg_ops[n2].arg = t
              /\ \A j \in (n1 + 1)..(n2 - 1) : reg_ops[j].op # "clear" )
            => /\ reg_ops[n2].imported = <<>>
               /\ reg_ops[n2].found = (t \in DOMAIN reg_ops[n2].before.connectors)

C13_Witness ==
    /\ Len(reg_ops) >= 3
    /\ reg_ops[1].op = "has_connector" /\ reg_ops[1].arg = "nosuch"
    /\ reg_ops[1].imported = <<"nosuch">>
    /\ reg_ops[2].op = "register_connector" /\ reg_ops[2].raised = "None"
    /\ reg_ops[3].op = "get_connector" /\ reg_ops[3].arg = "nosuch"
    /\ reg_ops[3].imported = <<>> /\ reg_ops[3].raised = "ValueError"

----------------------------------------------------------------------------
(* Claims about the error policy *)

\* C18 (checked under SpecCollect): when the host selected the abort-on-error
\* policy (continue_on_error false), a collection in which a source fails
\* raises that first failure itself, the one logged for the source, and
\* attempts no source declared after the failing one.
C18_AbortReraisesOriginalFailure ==
    \A n \in FreshCalls :
        LET c == collect_calls[n]
        IN  (AbortPolicy /\ c.errors # <<>>) =>
                /\ c.raised = c.errors[1].error
                /\ Len(c.errors) = 1
                /\ c.attempted[Len(c.attempted)] = c.errors[1].source

----------------------------------------------------------------------------
(* Claims about the template loop, checked under SpecGen (default policy) *)

\* the template names for which the try block of the loop was entered
AttemptedTemplates(c) ==
    { x.template : x \in Range(c.contexts) } \cup { e.template : e \in Range(c.errors) }

\* the call got as far as the template loop (the collection it may start did
\* not raise)
LoopReached(c) == c.raised = "None" \/ c.errors # <<>>

\* the first template config declared under a name
FirstConfig(name) ==
    config.templates[CHOOSE k \in DOMAIN config.templates :
                        /\ config.templates[k].name = name
                        /\ \A h \in 1..(k - 1) : config.templates[h].name # name]

\* C14: under the default policy, a failure while one template is processed
\* (context, rendering, emission of a format) does not abort generation: every
\* requested template that is declared and enabled is still processed,
\* generate_documents returns normally, and the list it returns holds the
\* path of every (template, format) pair that was written.
C14_TemplateFailureDoesNotAbort ==
    \A n \in DOMAIN gen_calls :
        LET c == gen_calls[n]
        IN  (DefaultPolicy /\ c.errors # <<>>) =>
                /\ c.raised = "None"
                /\ \A j \in ProcessedTemplates(c) : c.names[j] \in AttemptedTemplates(c)
                /\ c.value = Some(c.written)

\* C16: in a call of generate_documents that requests a template name with no
\* declared config or with a disabled config, the template engine is not
\* invoked for that name and no context is built for it, and every other
\* requested template is still processed.
C16_UndeclaredOrDisabledSkipped ==
    \A n \in DOMAIN gen_calls :
        LET c == gen_calls[n]
        IN  ( /\ LoopReached(c)
              /\ \E j \in DOMAIN c.names : j \notin ProcessedTemplates(c) ) =>
                /\ \A j \in DOMAIN c.names \ ProcessedTemplates(c) :
                      /\ c.names[j] \notin Range(c.rendered)
                      /\ c.names[j] \notin AttemptedTemplates(c)
                /\ \A j \in ProcessedTemplates(c) : c.names[j] \in AttemptedTemplates(c)

\* C19: for every template with custom variables that generate_documents
\* processes, a context is built in which each custom variable of the
\* template, whatever its name (project, latest_release, ...), has the
\* template's custom value.
C19_CustomVariablesOverride ==
    \A n \in DOMAIN gen_calls :
        LET c == gen_calls[n]
        IN  \A name \in { a \in AttemptedTemplates(c) :
                                DOMAIN FirstConfig(a).variables # {} } :
                \E x \in Range(c.contexts) :
                    /\ x.template = name
                    /\ \A k \in DOMAIN FirstConfig(name).variables :
                          /\ k \in DOMAIN x.context
                          /\ x.context[k] = [from |-> "variables",
                                             value |-> FirstConfig(name).variables[k]]

----------------------------------------------------------------------------
(* Claims about complete runs, checked under SpecAll (default policy) *)

\* the configuration references a template that the engine does not have (and
\* that names no file of its own) or an output format without generator
MissingCapability ==
    \/ \E k \in DOMAIN config.templates :
          /\ config.templates[k].name \notin template_engine
          /\ config.templates[k].template_file = None
    \/ \E k \in DOMAIN config.output.formats :
          config.output.formats[k] \notin {"markdown", "html"}

\* how many times the connector of source k was invoked in the run c
RECURSIVE InvocationsFrom(_, _, _)
InvocationsFrom(c, k, i) ==
    IF i > Len(c.collects) THEN 0
    ELSE Cardinality({ j \in DOMAIN c.collects[i].collected :
                         c.collects[i].collected[j] = k })
         + InvocationsFrom(c, k, i + 1)

\* C15 as claimed: a run whose configuration references a missing template or
\* a format without generator is never a hard failure: generate_all returns.
C15_MissingCapabilityNeverFatal ==
    \A n \in DOMAIN all_calls :
        MissingCapability => all_calls[n].raised = "None"

\* C15, amended: a run whose configuration declares a template unknown to the
\* engine (without template_file) or a format without generator is a hard
\* failure: validate_config reports it and generate_all raises ValueError
\* before any source is collected and any template is generated.
C15_MissingCapabilityFailsValidation ==
    \A n \in DOMAIN all_calls :
        LET c == all_calls[n]
        IN  MissingCapability =>
                /\ c.raised = "ValueError"
                /\ c.errors # <<>>
                /\ c.phases = <<"validate">>
                /\ c.collects = <<>>
                /\ c.gen = None

C15_Witness ==
    /\ Len(all_calls) >= 1
    /\ all_calls[1].raised = "ValueError"
    /\ \E k \in DOMAIN config.output.formats : config.output.formats[k] = "pdf"
    /\ \A k \in DOMAIN config.templates : config.templates[k].name \in template_engine
    /\ \E k \in DOMAIN config.templates : config.templates[k].enabled
    /\ \E k \in DOMAIN config.sources : config.sources[k].enabled

ConfigInvalid ==
    \/ MissingCapability
    \/ \E k \in DOMAIN config.sources : config.sources[k].type \notin BuiltinModules

\* the phases of a run, in their fixed order
RunPhases == <<"validate", "collect", "generate", "stats">>

PreviewStep == preview_calls' # preview_calls

----------------------------------------------------------------------------
(* Claims about the connection test, checked under SpecConn *)

\* the collection of source k with each limit it has reduced to 1 succeeds
LimitedCollectionSucceeds(k, c) ==
    \/ connector_behaviour[k] = "ok"
    \/ /\ connector_behaviour[k] = "ok_if_limited"
       /\ \A limit \in {c.collected_with.max_commits, c.collected_with.max_issues} :
             limit \in {None, Some(1)}

\* C23: test_connection returns true exactly when the collection with the
\* limits reduced to 1 succeeds, false when it raises; it never raises,
\* returns nothing but the boolean, passes collect a config whose limits are
\* 1, and leaves the caller's config (max_commits, max_issues) unchanged.
C23_TestConnection ==
    \A n \in DOMAIN test_calls :
        LET c == test_calls[n]
        IN  /\ c.raised = "None"
            /\ c.value \in BOOLEAN
            /\ c.value = LimitedCollectionSucceeds(c.source, c)
            /\ c.config_before.max_commits # None => c.collected_with.max_commits = Some(1)
            /\ c.config_before.max_issues # None => c.collected_with.max_issues = Some(1)
            /\ config.sources[c.source] = c.config_before

C23_Witness ==
    /\ Len(test_calls) = 2
    /\ test_calls[1].value /\ ~test_calls[2].value
    /\ test_calls[1].config_before.max_commits = Some(100)
    /\ connector_behaviour[test_calls[1].source] = "ok_if_limited"
    /\ connector_behaviour[test_calls[2].source] = "raise"

----------------------------------------------------------------------------
(* Claims about validation inside the collection loop (SpecCollect) *)

\* C24: under the default policy a source whose config its connector finds
\* invalid is recorded as an error and skipped without its collect being
\* invoked, collect is invoked only for sources with a valid config, and the
\* run is not aborted.
C24_InvalidSourceSkippedBeforeCollect ==
    \A n \in FreshCalls :
        LET c == collect_calls[n]
        IN  DefaultPolicy =>
              /\ \A i \in Range(c.collected) : connector_behaviour[i] # "invalid"
              /\ \A i \in Range(c.attempted) :
                    connector_behaviour[i] = "invalid" =>
                        \E e \in Range(c.errors) : e.source = i
              /\ (\E i \in Range(c.attempted) : connector_behaviour[i] = "invalid") =>
                    c.raised = "None"

----------------------------------------------------------------------------
(* Claims about the dependency manager, checked under SpecDeps *)

\* the test modules of the enabled sources' connectors that env lacks
MissingModules(env) ==
    { CONNECTOR_DEPENDENCIES[config.sources[k].type].test_import :
        k \in { j \in DOMAIN config.sources :
                  /\ config.sources[j].enabled
                  /\ config.sources[j].type \in DOMAIN CONNECTOR_DEPENDENCIES } } \ env

\* the environment after the n-th call
EnvAfter(n) == IF n < Len(dep_calls) THEN dep_calls[n + 1].env_before ELSE importable

\* C25: auto_install_dependencies returns true without a pip run when nothing
\* is missing; with something missing it returns false without a pip run when
\* auto_install is off, true without a pip run when dry_run is on, and else
\* runs pip exactly once and returns true exactly when that run succeeded and
\* the re-check finds nothing missing.
C25_AutoInstallDependencies ==
    \A n \in DOMAIN dep_calls :
        LET c == dep_calls[n]
        IN  IF MissingModules(c.env_before) = {} THEN c.value /\ c.pip = <<>>
            ELSE IF ~c.auto_install THEN ~c.value /\ c.pip = <<>>
            ELSE IF c.dry_run THEN c.value /\ c.pip = <<>>
            ELSE /\ Len(c.pip) = 1
                 /\ c.value = (c.pip[1].outcome # "fail" /\ MissingModules(EnvAfter(n)) = {})

C25_Witness ==
    /\ Len(dep_calls) = 2
    /\ dep_calls[1].pip # <<>> /\ dep_calls[1].pip[1].outcome = "not_visible"
    /\ ~dep_calls[1].value
    /\ dep_calls[2].pip # <<>> /\ dep_calls[2].value
    /\ dep_calls[2].env_before # importable

----------------------------------------------------------------------------
(* Claims about the run statistics, checked under SpecAll *)

----------------------------------------------------------------------------
(* Claims about the output paths, checked under SpecGen *)

\* the (template, format) pairs of a call: the enabled templates it processes
\* and the configured formats that have a generator
OutputPairs(c) ==
    { k \in DOMAIN config.templates :
        /\ \E j \in ProcessedTemplates(c) : c.names[j] = config.templates[k].name
        /\ \A h \in 1..(k - 1) : config.templates[h].name # config.templates[k].name }
    \X { f \in Range(config.output.formats) : f \in Generators }

\* the path at which a pair's file is written
DerivedPath(pair) ==
    prepare_output_path(pair[2], output_file_of(config.templates[pair[1]], "output",
                                                pair[2], enum_format))

\* C27: within one generate_documents call different (template, format) pairs
\* have different derived output paths, so that no file written by the call
\* is written a second time by a later pair.
C27_DistinctOutputPaths ==
    \A n \in DOMAIN gen_calls :
        /\ \A p, q \in OutputPairs(gen_calls[n]) : p # q => DerivedPath(p) # DerivedPath(q)
        /\ \A i, j \in DOMAIN gen_calls[n].written :
              i # j => gen_calls[n].written[i] # gen_calls[n].written[j]

----------------------------------------------------------------------------
(* Claims about the template context, checked under SpecCtx *)

\* the data held after the n-th call of _prepare_template_context
DataAfter(n) ==
    IF n < Len(context_calls) THEN context_calls[n + 1].data_before ELSE project_data

\* C28: _prepare_template_context never changes the data the project holds:
\* after the call, whatever the template config and whether it returned or
\* raised, the data is field for field what it was before, so the calls made
\* in sequence for several templates all work on the same data.
C28_ContextLeavesDataUnchanged ==
    /\ \A n \in DOMAIN context_calls : DataAfter(n) = context_calls[n].data_before
    /\ \A n, m \in DOMAIN context_calls :
          context_calls[n].data_before = context_calls[m].data_before

C28_Witness ==
    /\ Len(context_calls) = 2
    /\ context_calls[1].template # context_calls[2].template
    /\ context_calls[1].data_before # None
    /\ context_calls[1].data_before[1].releases # <<>>
    /\ project_data = context_calls[1].data_before

\* C29: the recent_commits entry of a context built on collected data is the
\* prefix of at most 10 elements of the collected commits, in their order:
\* its length is the smaller of 10 and the number of commits, its i-th element
\* the i-th commit, and it is empty when there is no commit.
C29_RecentCommitsIsPrefix ==
    \A n \in DOMAIN context_calls :
        LET c == context_calls[n]
        IN  (c.data_before # None /\ c.data_before[1].extras) =>
              /\ c.raised = "None"
              /\ "recent_commits" \in DOMAIN c.context
              /\ LET rc == c.context["recent_commits"].value
                     cs == commits(c.data_before[1])
                 IN  /\ Len(rc) = IF Len(cs) < 10 THEN Len(cs) ELSE 10
                     /\ \A i \in 1..Len(rc) : rc[i] = cs[i]

----------------------------------------------------------------------------
(* Claims about the instance cache of the registry, checked under SpecReg *)

\* C30: after any sequence of register_connector, get_connector,
\* has_connector, list_connectors, load_plugin_connector and clear, every
\* cached instance belongs to a registered type and is an instance of the
\* class now registered for that type; and two get_connector calls for one
\* type with no registration of that type, plugin load or clear in between
\* return the same instance.
C30_CacheConsistent ==
    /\ \A t \in DOMAIN registry.instances :
          /\ t \in DOMAIN registry.connectors
          /\ registry.instances[t].class = registry.connectors[t]
    /\ \A n, m \in DOMAIN reg_ops :
          ( /\ n < m
            /\ reg_ops[n].op = "get_connector" /\ reg_ops[m].op = "get_connector"
            /\ reg_ops[n].arg = reg_ops[m].arg
            /\ reg_ops[n].raised = "None"
            /\ \A j \in (n + 1)..(m - 1) : ~RedefinesType(reg_ops[j], reg_ops[n].arg) )
          => /\ reg_ops[m].raised = "None"
             /\ reg_ops[m].instance = reg_ops[n].instance

C30_Witness ==
    /\ Len(reg_ops) = 4
    /\ reg_ops[1].op = "register_connector" /\ reg_ops[1].raised = "None"
    /\ reg_ops[2].op = "get_connector" /\ reg_ops[2].arg = "custom"
    /\ reg_ops[3].op = "get_connector" /\ reg_ops[3].arg = "github"
    /\ reg_ops[3].instance # None
    /\ reg_ops[4].op = "get_connector" /\ reg_ops[4].arg = "custom"
    /\ reg_ops[4].instance # None /\ reg_ops[4].instance = reg_ops[2].instance
    /\ Cardinality(DOMAIN registry.instances) = 2

====
